---- MODULE Spec2Model ----
(***************************************************************************)
(* Model of the FAQ matching engine of OptFM-AI-Bot                        *)
(* (src/src/faq/enhanced_faq_manager.py, class EnhancedFAQManager) and of  *)
(* its request form (src/src/forms/request_form.py).                       *)
(*                                                                         *)
(* A Python str is a sequence of one-character strings; a list is a        *)
(* sequence; a dict that is only looked up by key is a function.  An       *)
(* optional argument is a sequence of length 0 (None) or 1 (the value).    *)
(***************************************************************************)
EXTENDS Integers, Sequences, FiniteSets, TLC

VARIABLES
    faq_data,       \* self.faq_data: the list of FAQ records, in store order
    search_index,   \* self.search_index: token -> list of ids
    faq_file,       \* what self.faq_file holds on disk
    file_text,      \* the JSON text in it
    last,           \* the most recent call: its arguments and what it returned
    running,        \* the mutator calls in progress in each thread
    hist,           \* the ids delete_faq has removed so far, the calls made
    forms           \* RequestFormManager.forms: user id -> the user's form

vars == <<faq_data, search_index, faq_file, file_text, last, running, hist, forms>>

\* what a call of the FAQ manager made from one thread leaves alone
others == <<running, hist, forms>>

----------------------------------------------------------------------------
(* Bounds of the model *)

MaxEntries == 2     \* add_faq is not called on a store of this length
MaxId == 2          \* add_faq is not called when it would assign a larger id
MaxCalls == 2       \* the mutator calls the two threads make between them

----------------------------------------------------------------------------
(* Characters and the str methods the manager uses *)

\* the characters of the model: letters (what \w matches), a blank, a "?"
WordChars == {"a", "b", "c", "A", "C"}
Whitespace == {" "}

\* str.lower() on one character
lower_char(c) == CASE c = "A" -> "a" [] c = "C" -> "c" [] OTHER -> c

SetMin(S) == CHOOSE x \in S : \A y \in S : x <= y
SetMax(S) == CHOOSE x \in S : \A y \in S : x >= y

lower(s) == [i \in 1..Len(s) |-> lower_char(s[i])]

strip(s) ==
    LET keep == {i \in 1..Len(s) : s[i] \notin Whitespace}
    IN  IF keep = {} THEN <<>> ELSE SubSeq(s, SetMin(keep), SetMax(keep))

\* `sub in s` for two str
Contains(sub, s) ==
    \E i \in 0..(Len(s) - Len(sub)) : SubSeq(s, i + 1, i + Len(sub)) = sub

startswith(s, prefix) ==
    Len(prefix) <= Len(s) /\ SubSeq(s, 1, Len(prefix)) = prefix

\* re.findall(r'\w+', s): the maximal runs of word characters, left to right
RECURSIVE findall_from(_, _, _, _)
findall_from(s, i, cur, acc) ==
    IF i > Len(s)
    THEN IF cur = <<>> THEN acc ELSE Append(acc, cur)
    ELSE IF s[i] \in WordChars
         THEN findall_from(s, i + 1, Append(cur, s[i]), acc)
         ELSE findall_from(s, i + 1, <<>>,
                           IF cur = <<>> THEN acc ELSE Append(acc, cur))

findall_words(s) == findall_from(s, 1, <<>>, <<>>)

InSeq(x, seq) == \E n \in 1..Len(seq) : seq[n] = x

----------------------------------------------------------------------------
(* Python floats.  Every score of the manager is an IEEE double.  A double *)
(* is kept as <<n, d, e>>: the double nearest to the fraction n/d (d > 0), *)
(* moved by e units in the last place.  A literal and the quotient of two  *)
(* integers are correctly rounded (e = 0); two fractions of the small      *)
(* denominators met here that differ are far more than an ulp apart, so    *)
(* doubles compare as their fractions do and, on equal fractions, as their *)
(* e do.                                                                   *)

FracGT(x, y) == x[1] * y[2] > y[1] * x[2]
FracEQ(x, y) == x[1] * y[2] = y[1] * x[2]

Float(n, d) == <<n, d, 0>>
FloatGT(x, y) == FracGT(x, y) \/ (FracEQ(x, y) /\ x[3] > y[3])

----------------------------------------------------------------------------
(* difflib.SequenceMatcher(None, a, b).ratio() = 2.0 * M / (len(a)+len(b)); *)
(* positions are 0-based and ranges half-open as in difflib.  No element   *)
(* is junk for sequences shorter than 200.                                 *)

Slice(s, lo, hi) == SubSeq(s, lo + 1, hi)

\* find_longest_match: the longest common block, earliest in a, then in b
find_longest_match(a, b, alo, ahi, blo, bhi) ==
    LET blocks == {m \in (alo..(ahi - 1)) \X (blo..(bhi - 1)) \X (1..(ahi - alo)) :
                      /\ m[1] + m[3] <= ahi
                      /\ m[2] + m[3] <= bhi
                      /\ Slice(a, m[1], m[1] + m[3]) = Slice(b, m[2], m[2] + m[3])}
    IN  IF blocks = {} THEN <<alo, blo, 0>>
        ELSE LET k    == SetMax({m[3] : m \in blocks})
                 i    == SetMin({m[1] : m \in {x \in blocks : x[3] = k}})
                 j    == SetMin({m[2] : m \in {x \in blocks : x[3] = k /\ x[1] = i}})
             IN  <<i, j, k>>

\* get_matching_blocks: the total size of the matching blocks
RECURSIVE matching_size(_, _, _, _, _, _)
matching_size(a, b, alo, ahi, blo, bhi) ==
    LET m == find_longest_match(a, b, alo, ahi, blo, bhi)
        i == m[1]
        j == m[2]
        k == m[3]
    IN  IF k = 0 THEN 0
        ELSE k
             + (IF alo < i /\ blo < j
                THEN matching_size(a, b, alo, i, blo, j) ELSE 0)
             + (IF i + k < ahi /\ j + k < bhi
                THEN matching_size(a, b, i + k, ahi, j + k, bhi) ELSE 0)

\* ratio(); two empty sequences give 1.0
ratio(a, b) ==
    IF Len(a) + Len(b) = 0 THEN Float(1, 1)
    ELSE Float(2 * matching_size(a, b, 0, Len(a), 0, Len(b)), Len(a) + Len(b))

----------------------------------------------------------------------------
(* FAQ records *)

Faq(id, question, answer, keywords) ==
    [id |-> id, question |-> question, answer |-> answer, keywords |-> keywords]

\* stands for Python's None where a FAQ record is expected
NoFaq == Faq(0, <<>>, <<>>, <<>>)

Ids(data) == {data[n].id : n \in 1..Len(data)}

\* _get_default_faq: one record, id 1, a capitalised question ending in "?",
\* single-word and multi-word keywords
get_default_faq == <<Faq(1, <<"A", "b", "c", "?">>, <<"x">>,
                         << <<"C", "a">>, <<"b", " ", "c">> >>)>>

\* _get_faq_by_id: the first record with that id, else None
get_faq_by_id(data, faq_id) ==
    IF \E n \in 1..Len(data) : data[n].id = faq_id
    THEN data[SetMin({n \in 1..Len(data) : data[n].id = faq_id})]
    ELSE NoFaq

----------------------------------------------------------------------------
(* _build_search_index *)

\* (variant: an id is recorded only under a token that is new)
index_token_lost(idx, tok, id, unique) ==
    IF tok \in DOMAIN idx THEN idx ELSE idx @@ (tok :> <<id>>)

\* one pass of the inner loops: append id under tok; for a question word
\* (unique) only when the id is not listed under it yet
index_token(idx, tok, id, unique) ==
    IF tok \in DOMAIN idx
    THEN IF unique /\ InSeq(id, idx[tok]) THEN idx
         ELSE [idx EXCEPT ![tok] = Append(@, id)]
    ELSE idx @@ (tok :> <<id>>)

RECURSIVE index_keywords(_, _, _)
index_keywords(idx, faq, n) ==
    IF n > Len(faq.keywords) THEN idx
    ELSE index_keywords(index_token(idx, lower(faq.keywords[n]), faq.id, FALSE),
                        faq, n + 1)

RECURSIVE index_question(_, _, _, _)
index_question(idx, faq, words, n) ==
    IF n > Len(words) THEN idx
    ELSE index_question(IF Len(words[n]) > 2
                        THEN index_token(idx, words[n], faq.id, TRUE)
                        ELSE idx,
                        faq, words, n + 1)

RECURSIVE build_from(_, _, _)
build_from(idx, data, n) ==
    IF n > Len(data) THEN idx
    ELSE build_from(index_question(index_keywords(idx, data[n], 1), data[n],
                                   findall_words(lower(data[n].question)), 1),
                    data, n + 1)

build_search_index(data) == build_from(<<>>, data, 1)

\* a keyword that is not a str (an int, None): keyword.lower() raises
\* AttributeError on it
NonString == <<"int">>

\* _build_search_index raises on this store
raises(data) == \E n \in 1..Len(data) : InSeq(NonString, data[n].keywords)

\* the index as the raising _build_search_index leaves it: emptied, then
\* filled from the records before the one it raises on and from the keywords
\* of that record that precede the one that is not a str
build_until_raise(data) ==
    LET n == SetMin({m \in 1..Len(data) : InSeq(NonString, data[m].keywords)})
        k == SetMin({j \in 1..Len(data[n].keywords) :
                        data[n].keywords[j] = NonString})
    IN  index_keywords(build_from(<<>>, SubSeq(data, 1, n - 1), 1),
                       [data[n] EXCEPT !.keywords = SubSeq(@, 1, k - 1)], 1)

----------------------------------------------------------------------------
(* search_faq and its three tiers *)

\* _find_exact_match: the first record whose lowercased question contains query
RECURSIVE exact_from(_, _, _)
exact_from(data, query, n) ==
    IF n > Len(data) THEN NoFaq
    ELSE IF Contains(query, lower(data[n].question)) THEN data[n]
         ELSE exact_from(data, query, n + 1)

\* (variant: the question is compared without lowercasing it)
find_exact_match_cased(data, query) ==
    LET hits == {n \in 1..Len(data) : Contains(query, data[n].question)}
    IN  IF hits = {} THEN NoFaq ELSE data[SetMin(hits)]

\* (variant: the loop does not stop at the first hit)
find_exact_match_last(data, query) ==
    LET hits == {n \in 1..Len(data) : Contains(query, lower(data[n].question))}
    IN  IF hits = {} THEN NoFaq ELSE data[SetMax(hits)]

find_exact_match(data, query) == exact_from(data, query, 1)

\* faq_scores: a dict, kept as the list of <<faq_id, count>> in insertion order
score_hit(scores, id) ==
    IF \E n \in 1..Len(scores) : scores[n][1] = id
    THEN [n \in 1..Len(scores) |->
             IF scores[n][1] = id THEN <<id, scores[n][2] + 1>> ELSE scores[n]]
    ELSE Append(scores, <<id, 1>>)

RECURSIVE score_ids(_, _, _)
score_ids(scores, ids, n) ==
    IF n > Len(ids) THEN scores
    ELSE score_ids(score_hit(scores, ids[n]), ids, n + 1)

RECURSIVE score_words(_, _, _, _)
score_words(idx, scores, words, n) ==
    IF n > Len(words) THEN scores
    ELSE score_words(idx,
                     IF words[n] \in DOMAIN idx
                     THEN score_ids(scores, idx[words[n]], 1) ELSE scores,
                     words, n + 1)

\* max(faq_scores, key=faq_scores.get): the first key with the largest count
RECURSIVE max_key_from(_, _, _)
max_key_from(scores, n, best) ==
    IF n > Len(scores) THEN scores[best][1]
    ELSE max_key_from(scores, n + 1,
                      IF scores[n][2] > scores[best][2] THEN n ELSE best)

\* (variant: of several keys with the largest count the last one wins)
max_key_last(scores) ==
    LET top == SetMax({scores[n][2] : n \in 1..Len(scores)})
    IN  scores[SetMax({n \in 1..Len(scores) : scores[n][2] = top})][1]

max_key(scores) == max_key_from(scores, 2, 1)

\* _find_by_keywords
find_by_keywords(idx, data, query_words) ==
    IF query_words = <<>> THEN NoFaq
    ELSE LET faq_scores == score_words(idx, <<>>, query_words, 1)
         IN  IF faq_scores = <<>> THEN NoFaq
             ELSE get_faq_by_id(data, max_key(faq_scores))

\* the condition of _calculate_keyword_similarity's inner loop
keyword_matches(keyword_lower, word) ==
    \/ keyword_lower = word
    \/ Contains(keyword_lower, word)
    \/ Contains(word, keyword_lower)
    \/ startswith(keyword_lower, word)
    \/ startswith(word, keyword_lower)
    \/ FloatGT(ratio(keyword_lower, word), Float(8, 10))

\* _calculate_keyword_similarity, as the fraction matches / total_keywords
calculate_keyword_similarity(query_words, keywords) ==
    IF keywords = <<>> \/ query_words = <<>> THEN Float(0, 1)
    ELSE Float(Cardinality({n \in 1..Len(keywords) :
                              \E w \in 1..Len(query_words) :
                                 keyword_matches(lower(keywords[n]), query_words[w])}),
               Len(keywords))

\* The pairs (question_score, keyword_score) for which the two products and
\* the sum of (question_score * 0.6) + (keyword_score * 0.4) end one unit in
\* the last place below the double nearest to the exact value; every other
\* pair with question_score = 2M/T, T <= 8, and keyword_score = m/n, n <= 2,
\* ends on the nearest double.
RoundsDown ==
    { <<<<1, 3>>, <<0, 1>>>>, <<<<2, 3>>, <<0, 1>>>>, <<<<2, 7>>, <<0, 1>>>>,
      <<<<4, 7>>, <<0, 1>>>>, <<<<3, 4>>, <<0, 1>>>>, <<<<3, 4>>, <<1, 2>>>>,
      <<<<4, 5>>, <<1, 2>>>>, <<<<6, 7>>, <<1, 2>>>> }

\* (question_score * 0.6) + (keyword_score * 0.4)
weighted_sum(qs, ks) ==
    CASE qs[2] <= 8 /\ ks[2] <= 2 ->
        <<6 * qs[1] * ks[2] + 4 * ks[1] * qs[2], 10 * qs[2] * ks[2],
          IF \E p \in RoundsDown : FracEQ(qs, p[1]) /\ FracEQ(ks, p[2])
          THEN -1 ELSE 0>>

\* total_score of one record, as both scoring loops compute it
total_score(query, query_words, faq) ==
    weighted_sum(ratio(query, lower(faq.question)),
                 calculate_keyword_similarity(query_words, faq.keywords))

Threshold == Float(3, 10)      \* total_score > 0.3

\* _find_by_similarity: one pass keeping the best record so far
RECURSIVE similarity_from(_, _, _, _, _, _)
similarity_from(data, query, query_words, n, best_match, best_score) ==
    IF n > Len(data) THEN best_match
    ELSE LET score == total_score(query, query_words, data[n])
         IN  IF FloatGT(score, best_score) /\ FloatGT(score, Threshold)
             THEN similarity_from(data, query, query_words, n + 1, data[n], score)
             ELSE similarity_from(data, query, query_words, n + 1,
                                  best_match, best_score)

\* (variant: a record that only equals the best score replaces the best one)
RECURSIVE similarity_last_from(_, _, _, _, _, _)
similarity_last_from(data, query, query_words, n, best_match, best_score) ==
    IF n > Len(data) THEN best_match
    ELSE LET score == total_score(query, query_words, data[n])
         IN  IF ~ FloatGT(best_score, score) /\ FloatGT(score, Threshold)
             THEN similarity_last_from(data, query, query_words, n + 1,
                                       data[n], score)
             ELSE similarity_last_from(data, query, query_words, n + 1,
                                       best_match, best_score)

find_by_similarity_last(data, query, query_words) ==
    similarity_last_from(data, query, query_words, 1, NoFaq, Float(0, 1))

find_by_similarity(data, query, query_words) ==
    similarity_from(data, query, query_words, 1, NoFaq, Float(0, 1))

\* what search_faq returns: the record (NoFaq for None) and the tier (the
\* return statement) that produced it
Match(tier, faq) == [tier |-> tier, faq |-> faq]
NoMatch == Match("None", NoFaq)

\* (variant: the keyword index is consulted before the questions)
search_faq_keyword_first(data, idx, query) ==
    IF query = <<>> \/ data = <<>> THEN NoMatch
    ELSE LET query_lower   == strip(lower(query))
             query_words   == findall_words(query_lower)
             exact_match   == find_exact_match(data, query_lower)
             keyword_match == find_by_keywords(idx, data, query_words)
             similarity_match == find_by_similarity(data, query_lower, query_words)
         IN  IF keyword_match # NoFaq THEN Match("Keyword", keyword_match)
             ELSE IF exact_match # NoFaq THEN Match("Exact", exact_match)
             ELSE IF similarity_match # NoFaq THEN Match("Fuzzy", similarity_match)
             ELSE NoMatch

search_faq(data, idx, query) ==
    IF query = <<>> \/ data = <<>> THEN NoMatch
    ELSE LET query_lower   == strip(lower(query))
             query_words   == findall_words(query_lower)
             exact_match   == find_exact_match(data, query_lower)
             keyword_match == find_by_keywords(idx, data, query_words)
             similarity_match == find_by_similarity(data, query_lower, query_words)
         IN  IF exact_match # NoFaq THEN Match("Exact", exact_match)
             ELSE IF keyword_match # NoFaq THEN Match("Keyword", keyword_match)
             ELSE IF similarity_match # NoFaq THEN Match("Fuzzy", similarity_match)
             ELSE NoMatch

----------------------------------------------------------------------------
(* search_similar_questions *)

MinimumScore == Float(1, 10)      \* total_score > 0.1

\* the (faq, total_score) pairs above the minimum, in store order
RECURSIVE similarities_from(_, _, _, _)
similarities_from(data, query_lower, query_words, n) ==
    IF n > Len(data) THEN <<>>
    ELSE LET score == total_score(query_lower, query_words, data[n])
             rest  == similarities_from(data, query_lower, query_words, n + 1)
         IN  IF FloatGT(score, MinimumScore)
             THEN <<[faq |-> data[n], score |-> score]>> \o rest
             ELSE rest

\* (variant: a pair goes before the pairs of equal score)
insert_before_equal(sorted, pair) ==
    LET before == {k \in 1..Len(sorted) : FloatGT(sorted[k].score, pair.score)}
        m      == IF before = {} THEN 0 ELSE SetMax(before)
    IN  SubSeq(sorted, 1, m) \o <<pair>> \o SubSeq(sorted, m + 1, Len(sorted))

\* list.sort(key=score, reverse=True) is stable: a pair goes after the pairs
\* whose score is not smaller than its own
insert_sorted(sorted, pair) ==
    LET before == {k \in 1..Len(sorted) : ~ FloatGT(pair.score, sorted[k].score)}
        m      == IF before = {} THEN 0 ELSE SetMax(before)
    IN  SubSeq(sorted, 1, m) \o <<pair>> \o SubSeq(sorted, m + 1, Len(sorted))

RECURSIVE sort_reverse(_, _, _)
sort_reverse(pairs, n, sorted) ==
    IF n > Len(pairs) THEN sorted
    ELSE sort_reverse(pairs, n + 1, insert_sorted(sorted, pairs[n]))

\* similarities[:limit], for a limit of either sign
slice_to(seq, limit) ==
    LET stop == IF limit >= 0 THEN limit ELSE Len(seq) + limit
    IN  SubSeq(seq, 1, IF stop < 0 THEN 0 ELSE IF stop > Len(seq) THEN Len(seq) ELSE stop)

\* the list of FAQ records returned
search_similar_questions(data, query, limit) ==
    LET query_lower  == lower(query)
        query_words  == findall_words(query_lower)
        similarities == similarities_from(data, query_lower, query_words, 1)
        top          == slice_to(sort_reverse(similarities, 1, <<>>), limit)
    IN  [k \in 1..Len(top) |-> top[k].faq]

----------------------------------------------------------------------------
(* get_statistics *)

\* sum(len(faq.get("keywords", [])) for faq in self.faq_data)
RECURSIVE total_keywords_from(_, _)
total_keywords_from(data, n) ==
    IF n > Len(data) THEN 0
    ELSE Len(data[n].keywords) + total_keywords_from(data, n + 1)

\* round(total_keywords / total_faq, 2), in hundredths (no quotient of the
\* model lies half-way between two hundredths)
average_hundredths(total_keywords, total_faq) ==
    IF total_faq > 0
    THEN (200 * total_keywords + total_faq) \div (2 * total_faq)
    ELSE 0

get_statistics(data, idx) ==
    [total_faq |-> Len(data),
     total_keywords |-> total_keywords_from(data, 1),
     average_keywords_per_faq |->
        average_hundredths(total_keywords_from(data, 1), Len(data)),
     search_index_size |-> Cardinality(DOMAIN idx)]

\* stands for "no statistics returned"
NoStatistics == get_statistics(<<>>, <<>>)

----------------------------------------------------------------------------
(* Arguments the callers pass *)

None == <<>>
Some(x) == <<x>>

Questions == { <<"a", "b">>, <<"A", "b", "c", "?">> }
Answers == { <<"x">> }
KeywordLists == { <<>>, << <<"a">> >>, << <<"C", "a">>, <<"b", " ", "c">> >> }

\* add_faq(question, answer, keywords=None)
AddArgs ==
    (Questions \X Answers \X {Some(k) : k \in KeywordLists})
        \cup { <<<<>>, <<"x">>, None>> }

\* update_faq(faq_id, question=None, answer=None, keywords=None)
UpdateArgs ==
    { <<None, None, None>>,
      <<Some(<<"a", "b">>), None, None>>,
      <<None, None, Some(<< <<"a">> >>)>>,
      <<Some(<<>>), Some(<<>>), Some(<<>>)>>,
      <<None, None, Some(<<>>)>>,
      <<Some(<<"A", "b", "c", "?">>), None,
        Some(<< <<"C", "a">>, <<"b", " ", "c">> >>)>> }

Queries ==
    { <<>>, <<" ">>, <<"a">>, <<"a", "b">>, <<"A", "b", "c", "?">>,
      <<"C", "a">>, <<"b", " ", "c">>, <<"a", " ", "c", "a">>,
      <<"a", "b", "?">> }

\* search_similar_questions(query, limit=3)
SimilarQueries ==
    { <<"a", "b">>, <<"C", "a">>, <<"a", " ", "c", "a">> }
Limits == {-1, 0, 1, 2}

\* add_faq with a keyword listed twice up to letter case, and with a keyword
\* that is a word of the question
RepeatingArgs ==
    { << <<"a", "b">>, <<"x">>, Some(<< <<"a">>, <<"A">> >>) >>,
      << <<"A", "b", "c", "?">>, <<"x">>, Some(<< <<"a", "b", "c">> >>) >> }

\* add_faq and update_faq with a keyword that is not a str, and without one
RaisingAddArgs ==
    { << <<"a", "b">>, <<"x">>, Some(<< <<"a">> >>) >>,
      << <<"A", "b", "c", "?">>, <<"x">>, Some(<< <<"C", "a">>, NonString >>) >> }
RaisingUpdateArgs ==
    { <<None, None, Some(<< <<"a">>, NonString >>)>>,
      <<None, None, Some(<< <<"a">> >>)>> }

\* corpora a well-formed data/faq_enhanced.json can hold at start-up
LoadedCorpora ==
    { <<>>,
      <<Faq(2, <<"a", "b">>, <<"x">>, << <<"a">> >>),
        Faq(1, <<"A", "b", "c", "?">>, <<"x">>, <<>>)>> }

----------------------------------------------------------------------------
(* json.dump and json.load.  A JSON text is a sequence of tokens, each a   *)
(* sequence of characters: the punctuation tokens [ ] { }, a string token  *)
(* (a quote mark, then the characters), a number token (#, then a digit).  *)

Digits == <<"0", "1", "2", "3", "4", "5", "6", "7", "8", "9">>

Punct(c) == <<c>>
StringToken(str) == <<"'">> \o str
NumberToken(n) == <<"#", Digits[n + 1]>>

IsString(tok) == tok # <<>> /\ tok[1] = "'"
IsNumber(tok) ==
    Len(tok) = 2 /\ tok[1] = "#" /\ \E d \in 1..10 : Digits[d] = tok[2]

string_of(tok) == Tail(tok)
number_of(tok) == (CHOOSE d \in 1..10 : Digits[d] = tok[2]) - 1

\* (variant: the list is written back to front)
RECURSIVE dump_strings_reversed(_, _)
dump_strings_reversed(strs, n) ==
    IF n > Len(strs) THEN <<>>
    ELSE dump_strings_reversed(strs, n + 1) \o <<StringToken(strs[n])>>

RECURSIVE dump_strings(_, _)
dump_strings(strs, n) ==
    IF n > Len(strs) THEN <<>>
    ELSE <<StringToken(strs[n])>> \o dump_strings(strs, n + 1)

\* one record, its keys in the order add_faq creates them
dump_record(faq) ==
    << Punct("{"),
       StringToken(<<"i", "d">>), NumberToken(faq.id),
       StringToken(<<"q">>), StringToken(faq.question),
       StringToken(<<"a">>), StringToken(faq.answer),
       StringToken(<<"k">>), Punct("[") >>
    \o dump_strings(faq.keywords, 1)
    \o << Punct("]"), Punct("}") >>

RECURSIVE dump_records(_, _)
dump_records(data, n) ==
    IF n > Len(data) THEN <<>>
    ELSE dump_record(data[n]) \o dump_records(data, n + 1)

\* json.dump(self.faq_data, f, ensure_ascii=False, indent=2): the text written
json_dump(data) == <<Punct("[")>> \o dump_records(data, 1) \o <<Punct("]")>>

\* the result of a parse that failed (json.JSONDecodeError, KeyError)
ParseError == [ok |-> FALSE, value |-> <<>>, next |-> 0]
Parsed(value, next) == [ok |-> TRUE, value |-> value, next |-> next]

At(text, i) == IF i \in 1..Len(text) THEN text[i] ELSE <<>>

\* a list of strings, from the token after its "["
RECURSIVE parse_strings(_, _, _)
parse_strings(text, i, acc) ==
    CASE At(text, i) = Punct("]") -> Parsed(acc, i + 1)
      [] IsString(At(text, i))    ->
            parse_strings(text, i + 1, Append(acc, string_of(text[i])))
      [] OTHER                    -> ParseError

\* an object with the keys id, q(uestion), a(nswer), k(eywords)
parse_record(text, i) ==
    LET keywords == parse_strings(text, i + 9, <<>>)
    IN  IF /\ At(text, i) = Punct("{")
           /\ At(text, i + 1) = StringToken(<<"i", "d">>)
           /\ IsNumber(At(text, i + 2))
           /\ At(text, i + 3) = StringToken(<<"q">>)
           /\ IsString(At(text, i + 4))
           /\ At(text, i + 5) = StringToken(<<"a">>)
           /\ IsString(At(text, i + 6))
           /\ At(text, i + 7) = StringToken(<<"k">>)
           /\ At(text, i + 8) = Punct("[")
           /\ keywords.ok
           /\ At(text, keywords.next) = Punct("}")
        THEN Parsed(Faq(number_of(text[i + 2]), string_of(text[i + 4]),
                        string_of(text[i + 6]), keywords.value),
                    keywords.next + 1)
        ELSE ParseError

RECURSIVE parse_records(_, _, _)
parse_records(text, i, acc) ==
    IF At(text, i) = Punct("]")
    THEN IF i = Len(text) THEN Parsed(acc, i + 1) ELSE ParseError
    ELSE LET faq == parse_record(text, i)
         IN  IF faq.ok THEN parse_records(text, faq.next, Append(acc, faq.value))
             ELSE ParseError

\* json.load(f): the list of records, or an error
json_load(text) ==
    IF At(text, 1) = Punct("[") THEN parse_records(text, 2, <<>>) ELSE ParseError

----------------------------------------------------------------------------
(* The file data/faq_enhanced.json.  faq_file says what it holds:          *)
(*   "absent"  no file;  "current" the corpus that is now in faq_data;     *)
(*   "stale"   a complete corpus written before faq_data last changed;     *)
(*   "partial" json.dump stopped after open(..., 'w') truncated the file   *)
(* and file_text is its text while it is "current" (the text of a stale    *)
(* or partial file is not recorded).                                       *)

FileStates == {"absent", "current", "stale", "partial"}

\* how one call of _save_faq ends; it catches and logs every exception
SaveOutcomes == {"saved", "not_opened", "write_failed"}

\* _save_faq: the file after the call, for a store that did or did not change
save_faq(file, changed, outcome) ==
    CASE outcome = "saved"        -> "current"
      [] outcome = "write_failed" -> "partial"
      [] outcome = "not_opened"   ->
            IF file = "current" /\ changed THEN "stale" ELSE file

\* _save_faq: the text in the file after the call
save_text(text, file, data, changed, outcome) ==
    CASE outcome = "saved" -> json_dump(data)
      [] outcome = "not_opened" /\ file = "current" /\ ~ changed -> text
      [] OTHER -> <<>>

\* the well-formed texts the process can find in the file at start-up
LoadedTexts == {json_dump(corpus) : corpus \in LoadedCorpora}

\* _load_faq: the list read from the file, the default FAQ when there is no
\* file or when reading it raises
load_faq(file, text) ==
    IF file = "current" /\ json_load(text).ok
    THEN json_load(text).value
    ELSE get_default_faq

----------------------------------------------------------------------------
(* The request form (src/src/forms/request_form.py).  A form is its state  *)
(* (the value of the FormState member) and its data dict; a field of the   *)
(* dict is None or Some(str).                                              *)

IDLE == "idle"
ASKING_NAME == "asking_name"
ASKING_PHONE == "asking_phone"
ASKING_EMAIL == "asking_email"
ASKING_DESCRIPTION == "asking_description"
COMPLETED == "completed"

NoData ==
    [name |-> None, phone |-> None, email |-> None, description |-> None,
     original_question |-> None]

\* RequestForm()
RequestForm == [state |-> IDLE, data |-> NoData]

\* what process_input returns, with the form as the call leaves it
Result(form, completed) ==
    [form |-> form, completed |-> completed,
     data |-> IF completed THEN form.data ELSE NoData]

\* len(re.sub(r'[^\d+]', '', phone))
RECURSIVE phone_clean_len(_, _)
phone_clean_len(phone, i) ==
    IF i > Len(phone) THEN 0
    ELSE (IF InSeq(phone[i], Digits) \/ phone[i] = "+" THEN 1 ELSE 0)
            + phone_clean_len(phone, i + 1)

\* the character classes of email_pattern
Letters == {"a", "b", "c", "l", "s", "k", "i", "p", "A", "C"}
LocalChars ==
    Letters \cup {Digits[i] : i \in 1..Len(Digits)} \cup {".", "_", "%", "+", "-"}
DomainChars == Letters \cup {Digits[i] : i \in 1..Len(Digits)} \cup {".", "-"}

\* re.match(r'^[a-zA-Z0-9._%+-]+@[a-zA-Z0-9.-]+\.[a-zA-Z]{2,}$', email):
\* a local part, "@", a domain part, ".", two letters or more, the end
email_match(email) ==
    \E at \in 2..Len(email), dot \in 4..Len(email) :
        /\ email[at] = "@" /\ email[dot] = "."
        /\ at + 1 < dot /\ dot + 2 <= Len(email)
        /\ \A i \in 1..(at - 1) : email[i] \in LocalChars
        /\ \A i \in (at + 1)..(dot - 1) : email[i] \in DomainChars
        /\ \A i \in (dot + 1)..Len(email) : email[i] \in Letters

\* the words that skip the email, as far as the model's characters write them
SkipWords == { <<"s", "k", "i", "p">> }

\* (variant: the name is stored as typed, without the strip)
process_name_as_typed(form, name) ==
    IF Len(strip(name)) < 2 THEN Result(form, FALSE)
    ELSE Result([form EXCEPT !.data.name = Some(name),
                             !.state = ASKING_PHONE], FALSE)

process_name(form, name) ==
    IF Len(strip(name)) < 2 THEN Result(form, FALSE)
    ELSE Result([form EXCEPT !.data.name = Some(strip(name)),
                             !.state = ASKING_PHONE], FALSE)

\* (variant: the phone is stored before it is validated)
process_phone_stored_first(form, phone) ==
    IF phone_clean_len(strip(phone), 1) < 10
    THEN Result([form EXCEPT !.data.phone = Some(strip(phone))], FALSE)
    ELSE Result([form EXCEPT !.data.phone = Some(strip(phone)),
                             !.state = ASKING_EMAIL], FALSE)

process_phone(form, phone) ==
    IF phone_clean_len(strip(phone), 1) < 10 THEN Result(form, FALSE)
    ELSE Result([form EXCEPT !.data.phone = Some(strip(phone)),
                             !.state = ASKING_EMAIL], FALSE)

process_email(form, email) ==
    LET lowered == lower(strip(email))
    IN  IF lowered \in SkipWords
        THEN Result([form EXCEPT !.data.email = None,
                                 !.state = ASKING_DESCRIPTION], FALSE)
        ELSE IF ~ email_match(lowered) THEN Result(form, FALSE)
        ELSE Result([form EXCEPT !.data.email = Some(lowered),
                                 !.state = ASKING_DESCRIPTION], FALSE)

process_description(form, description) ==
    IF Len(strip(description)) < 10 THEN Result(form, FALSE)
    ELSE Result([form EXCEPT !.data.description = Some(strip(description)),
                             !.state = COMPLETED], TRUE)

\* RequestForm.process_input
process_input(form, user_input) ==
    CASE form.state = IDLE -> Result(form, FALSE)
      [] form.state = ASKING_NAME -> process_name(form, user_input)
      [] form.state = ASKING_PHONE -> process_phone(form, user_input)
      [] form.state = ASKING_EMAIL -> process_email(form, user_input)
      [] form.state = ASKING_DESCRIPTION -> process_description(form, user_input)
      [] OTHER -> Result(form, FALSE)

\* RequestForm.start_form
start_form(form, original_question) ==
    [form EXCEPT !.state = ASKING_NAME,
                 !.data.original_question = original_question]

\* (variant: the cancelled form keeps the question it was started with)
cancel_form_keeps_question(form) ==
    [state |-> IDLE,
     data |-> [NoData EXCEPT !.original_question = form.data.original_question]]

\* RequestForm.cancel_form
cancel_form(form) == [state |-> IDLE, data |-> NoData]

\* RequestForm.is_active
is_active(form) == form.state # IDLE /\ form.state # COMPLETED

\* RequestFormManager.get_form: the forms, with a new form for a new user
get_form(fs, user_id) ==
    IF user_id \in DOMAIN fs THEN fs ELSE fs @@ (user_id :> RequestForm)

\* the users of the bot, what they type, the questions that open a form
Users == {1, 2}
FormInputs ==
    { <<"a">>,
      <<" ", "0", "1", "2", "3", "4", "5", "6", "7", "8", "9">>,
      <<"A", "@", "b", ".", "c", "c">>, <<"s", "k", "i", "p">> }
OriginalQuestions == { Some(<<"a", "b">>) }

\* what a user has typed and the form has accepted since the last start_form,
\* and the question that start_form was called with
NoEntries == NoData

----------------------------------------------------------------------------
(* The calls *)

Call(op, ret, faq, query, found) ==
    [op |-> op, ret |-> ret, faq |-> faq, query |-> query, found |-> found,
     limit |-> 0, similar |-> <<>>, stats |-> NoStatistics, nth |-> 0,
     user |-> 0, data |-> NoData]

\* the threads that call the manager, and a thread that is in no call
Threads == {1, 2}
Idle == [pc |-> "idle", op |-> "none", new_faq |-> NoFaq, faq_id |-> 0,
         before |-> <<>>, before_index |-> <<>>]

\* __init__: _load_faq, then _build_search_index
Init ==
    /\ \/ /\ faq_file \in {"absent", "partial"}
          /\ file_text = <<>>
       \/ /\ faq_file = "current"
          /\ file_text \in LoadedTexts
    /\ faq_data = load_faq(faq_file, file_text)
    /\ search_index = build_search_index(faq_data)
    /\ last = Call("init", TRUE, NoFaq, <<>>, NoMatch)
    /\ running = [t \in Threads |-> Idle]
    /\ hist = [deleted |-> {}, low_only |-> TRUE, calls |-> 0,
               entered |-> [u \in Users |-> NoEntries]]
    /\ forms = <<>>

\* (variant: a counter, the new id is one above every id ever held)
new_faq_id_counter(data) == SetMax(Ids(data) \cup hist.deleted \cup {0}) + 1

\* (variant: the new id is the length of the list plus one)
new_faq_id_len(data) == Len(data) + 1

\* max([faq["id"] for faq in self.faq_data], default=0) + 1
new_faq_id(data) == IF data = <<>> THEN 1 ELSE SetMax(Ids(data)) + 1

\* keywords or []
keywords_or_empty(keywords) == IF keywords = None THEN <<>> ELSE keywords[1]

\* (variant: the index is not rebuilt after the append)
add_faq_no_rebuild(question, answer, keywords) ==
    LET new_faq == Faq(new_faq_id(faq_data), question, answer,
                       keywords_or_empty(keywords))
    IN  /\ Len(faq_data) < MaxEntries
        /\ new_faq.id <= MaxId
        /\ faq_data' = Append(faq_data, new_faq)
        /\ search_index' = search_index
        /\ \E outcome \in SaveOutcomes :
              /\ faq_file' = save_faq(faq_file, TRUE, outcome)
              /\ file_text' = save_text(file_text, faq_file, faq_data', TRUE, outcome)
        /\ last' = Call("add_faq", TRUE, new_faq, <<>>, NoMatch)

\* an exception in the try block of a mutator: _save_faq is not reached, the
\* file stays as it is, and the `except Exception` clause returns False
raised(op, faq, changed) ==
    /\ search_index' = build_until_raise(faq_data')
    /\ faq_file' = save_faq(faq_file, changed, "not_opened")
    /\ file_text' = save_text(file_text, faq_file, faq_data', changed, "not_opened")
    /\ last' = Call(op, FALSE, faq, <<>>, NoMatch)

add_faq(question, answer, keywords) ==
    LET new_faq == Faq(new_faq_id(faq_data), question, answer,
                       keywords_or_empty(keywords))
    IN  /\ Len(faq_data) < MaxEntries
        /\ new_faq.id <= MaxId
        /\ faq_data' = Append(faq_data, new_faq)
        /\ IF raises(faq_data')
           THEN raised("add_faq", new_faq, TRUE)
           ELSE /\ search_index' = build_search_index(faq_data')
                /\ \E outcome \in SaveOutcomes :
                      /\ faq_file' = save_faq(faq_file, TRUE, outcome)
                      /\ file_text' = save_text(file_text, faq_file, faq_data',
                                                TRUE, outcome)
                /\ last' = Call("add_faq", TRUE, new_faq, <<>>, NoMatch)

\* `if question:` and the like: None and the empty value leave the field alone
Supplied(arg) == arg # None /\ arg[1] # <<>>

\* the three assignments of update_faq on the record found
updated_faq(faq, question, answer, keywords) ==
    [faq EXCEPT !.question = IF Supplied(question) THEN question[1] ELSE @,
                !.answer   = IF Supplied(answer) THEN answer[1] ELSE @,
                !.keywords = IF Supplied(keywords) THEN keywords[1] ELSE @]

\* the record _get_faq_by_id returned is changed in place, inside the list
update_in_place(data, faq_id, question, answer, keywords) ==
    LET pos == SetMin({n \in 1..Len(data) : data[n].id = faq_id})
    IN  [data EXCEPT ![pos] = updated_faq(@, question, answer, keywords)]

\* (variant: no early return, the rebuild and the save run for an unknown id too)
update_faq_always_saves(faq_id, question, answer, keywords) ==
    IF get_faq_by_id(faq_data, faq_id) = NoFaq
    THEN /\ last' = Call("update_faq", FALSE, NoFaq, <<>>, NoMatch)
         /\ search_index' = build_search_index(faq_data)
         /\ \E outcome \in SaveOutcomes :
               /\ faq_file' = save_faq(faq_file, FALSE, outcome)
               /\ file_text' = save_text(file_text, faq_file, faq_data, FALSE, outcome)
         /\ UNCHANGED faq_data
    ELSE /\ faq_data' = update_in_place(faq_data, faq_id, question, answer, keywords)
         /\ search_index' = build_search_index(faq_data')
         /\ \E outcome \in SaveOutcomes :
               /\ faq_file' = save_faq(faq_file, faq_data' # faq_data, outcome)
               /\ file_text' = save_text(file_text, faq_file, faq_data',
                                         faq_data' # faq_data, outcome)
         /\ last' = Call("update_faq", TRUE, get_faq_by_id(faq_data', faq_id),
                         <<>>, NoMatch)

\* (variant: _build_search_index does not empty the index before it fills it)
update_faq_accumulating(faq_id, question, answer, keywords) ==
    IF get_faq_by_id(faq_data, faq_id) = NoFaq
    THEN /\ last' = Call("update_faq", FALSE, NoFaq, <<>>, NoMatch)
         /\ UNCHANGED <<faq_data, search_index, faq_file, file_text>>
    ELSE /\ faq_data' = update_in_place(faq_data, faq_id, question, answer, keywords)
         /\ search_index' = build_from(search_index, faq_data', 1)
         /\ \E outcome \in SaveOutcomes :
               /\ faq_file' = save_faq(faq_file, faq_data' # faq_data, outcome)
               /\ file_text' = save_text(file_text, faq_file, faq_data',
                                         faq_data' # faq_data, outcome)
         /\ last' = Call("update_faq", TRUE, get_faq_by_id(faq_data', faq_id),
                         <<>>, NoMatch)

update_faq(faq_id, question, answer, keywords) ==
    IF get_faq_by_id(faq_data, faq_id) = NoFaq
    THEN /\ last' = Call("update_faq", FALSE, NoFaq, <<>>, NoMatch)
         /\ UNCHANGED <<faq_data, search_index, faq_file, file_text>>
    ELSE /\ faq_data' = update_in_place(faq_data, faq_id, question, answer, keywords)
         /\ IF raises(faq_data')
            THEN raised("update_faq", get_faq_by_id(faq_data', faq_id),
                        faq_data' # faq_data)
            ELSE /\ search_index' = build_search_index(faq_data')
                 /\ \E outcome \in SaveOutcomes :
                       /\ faq_file' = save_faq(faq_file, faq_data' # faq_data, outcome)
                       /\ file_text' = save_text(file_text, faq_file, faq_data',
                                                 faq_data' # faq_data, outcome)
                 /\ last' = Call("update_faq", TRUE,
                                 get_faq_by_id(faq_data', faq_id), <<>>, NoMatch)

\* (variant: the filter keeps the record it should drop)
remove_faq_kept(data, faq_id) == SelectSeq(data, LAMBDA f : f.id = faq_id)

\* [f for f in self.faq_data if f["id"] != faq_id]
remove_faq(data, faq_id) == SelectSeq(data, LAMBDA f : f.id # faq_id)

\* (variant: no early return, the rebuild and the save run for an unknown id too)
delete_faq_always_saves(faq_id) ==
    LET faq == get_faq_by_id(faq_data, faq_id)
    IN  /\ faq_data' = remove_faq(faq_data, faq_id)
        /\ search_index' = build_search_index(faq_data')
        /\ \E outcome \in SaveOutcomes :
              /\ faq_file' = save_faq(faq_file, TRUE, outcome)
              /\ file_text' = save_text(file_text, faq_file, faq_data', TRUE, outcome)
        /\ last' = Call("delete_faq", faq # NoFaq, faq, <<>>, NoMatch)

delete_faq(faq_id) ==
    LET faq == get_faq_by_id(faq_data, faq_id)
    IN  IF faq = NoFaq
        THEN /\ last' = Call("delete_faq", FALSE, NoFaq, <<>>, NoMatch)
             /\ UNCHANGED <<faq_data, search_index, faq_file, file_text>>
        ELSE /\ faq_data' = remove_faq(faq_data, faq_id)
             /\ IF raises(faq_data')
                THEN raised("delete_faq", faq, TRUE)
                ELSE /\ search_index' = build_search_index(faq_data')
                     /\ \E outcome \in SaveOutcomes :
                           /\ faq_file' = save_faq(faq_file, TRUE, outcome)
                           /\ file_text' = save_text(file_text, faq_file, faq_data',
                                                     TRUE, outcome)
                     /\ last' = Call("delete_faq", TRUE, faq, <<>>, NoMatch)

\* (variant: a search that found nothing returns what the search before it
\* returned)
Search_remembering(query) ==
    LET found == search_faq(faq_data, search_index, query)
    IN  /\ last' = Call("search_faq", TRUE, NoFaq, query,
                        IF found = NoMatch /\ last.op = "search_faq"
                        THEN last.found ELSE found)
        /\ UNCHANGED <<faq_data, search_index, faq_file, file_text>>

Search(query) ==
    /\ last' = Call("search_faq", TRUE, NoFaq, query,
                    search_faq(faq_data, search_index, query))
    /\ UNCHANGED <<faq_data, search_index, faq_file, file_text>>

\* the process starts again: __init__ runs on the file the last run left.
\* _load_faq catches every exception itself, so the constructor returns
\* normally (ret = TRUE) whatever the file holds.  (A start on a stale file
\* is left out: its text is not recorded.)
Restart ==
    /\ faq_file # "stale"
    /\ faq_data' = load_faq(faq_file, file_text)
    /\ search_index' = build_search_index(faq_data')
    /\ last' = Call("init", TRUE, NoFaq, <<>>, NoMatch)
    /\ UNCHANGED <<faq_file, file_text>>
    /\ UNCHANGED others

Similar(query, limit) ==
    /\ last' = [Call("search_similar_questions", TRUE, NoFaq, query, NoMatch)
                   EXCEPT !.limit = limit,
                          !.similar = search_similar_questions(faq_data, query, limit)]
    /\ UNCHANGED <<faq_data, search_index, faq_file, file_text>>

\* get_statistics(); nth tells the first from the second of two calls in a row
Statistics ==
    /\ last' = [Call("get_statistics", TRUE, NoFaq, <<>>, NoMatch)
                   EXCEPT !.stats = get_statistics(faq_data, search_index),
                          !.nth = IF last.op = "get_statistics" /\ last.nth = 1
                                  THEN 2 ELSE 1]
    /\ UNCHANGED <<faq_data, search_index, faq_file, file_text>>
    /\ UNCHANGED others

\* get_faq_by_id(faq_id): the record, or None
Get(faq_id) ==
    LET faq == get_faq_by_id(faq_data, faq_id)
    IN  /\ last' = Call("get_faq_by_id", faq # NoFaq, faq, <<>>, NoMatch)
        /\ UNCHANGED <<faq_data, search_index, faq_file, file_text>>

Add ==
    /\ \E a \in AddArgs : add_faq(a[1], a[2], a[3])
    /\ UNCHANGED others
Update ==
    /\ \E id \in 1..MaxId, u \in UpdateArgs : update_faq(id, u[1], u[2], u[3])
    /\ UNCHANGED others
Delete ==
    /\ \E id \in 1..MaxId : delete_faq(id)
    /\ UNCHANGED others
SearchFaq ==
    /\ \E q \in Queries : Search(q)
    /\ UNCHANGED others
GetFaqById ==
    /\ \E id \in 1..MaxId : Get(id)
    /\ UNCHANGED others
SearchSimilar ==
    /\ \E q \in SimilarQueries, limit \in Limits : Similar(q, limit)
    /\ UNCHANGED others

Next ==
    Add \/ Update \/ Delete \/ SearchFaq \/ GetFaqById \/ Restart \/ Statistics

Spec == Init /\ [][Next]_vars

\* add_faq and delete_faq with the record of what was deleted: the ids
\* removed, and whether each of them was below the largest id of its time
AddTracked ==
    /\ \E a \in AddArgs \cup RepeatingArgs : add_faq(a[1], a[2], a[3])
    /\ UNCHANGED others

DeleteTracked ==
    /\ \E id \in 1..MaxId : delete_faq(id)
    /\ hist' = IF last'.ret
               THEN [hist EXCEPT
                        !.deleted = @ \cup {last'.faq.id},
                        !.low_only = @ /\ last'.faq.id < SetMax(Ids(faq_data))]
               ELSE hist
    /\ UNCHANGED <<running, forms>>

NextIds == AddTracked \/ DeleteTracked

SpecIds == Init /\ [][NextIds]_vars

\* the mutators, called with arguments on which the rebuild can raise
AddRaising ==
    /\ \E a \in RaisingAddArgs : add_faq(a[1], a[2], a[3])
    /\ UNCHANGED others

UpdateRaising ==
    /\ \E id \in 1..MaxId, u \in RaisingUpdateArgs :
          update_faq(id, u[1], u[2], u[3])
    /\ UNCHANGED others

NextRaising == AddRaising \/ UpdateRaising \/ Delete

SpecRaising == Init /\ [][NextRaising]_vars

----------------------------------------------------------------------------
(* Calls from two threads.  The manager holds no lock, so a thread can be  *)
(* switched out between any two statements of a mutator.  running[t].pc    *)
(* is the place thread t has reached in add_faq or delete_faq:             *)
(*   "idle"     in no call                                                 *)
(*   "built"    add_faq has computed new_id and built new_faq              *)
(*   "found"    delete_faq has looked the record up                        *)
(*   "mutated"  the append, or the assignment of the filtered list, is done*)
(*   "emptied"  _build_search_index has run self.search_index = {}         *)
(*   "filled"   its loop over self.faq_data is done                        *)
(* running[t].before and before_index are the store and the index at the  *)
(* time of the call.                                                       *)

ThreadArgs ==
    { << <<"a", "b">>, <<"x">>, Some(<< <<"a">> >>) >>,
      << <<"A", "b", "c", "?">>, <<"x">>, None >> }

\* the adds that have reserved a place in the store and not yet appended
Pending == Cardinality({t \in Threads : running[t].pc = "built"})

\* add_faq up to the construction of new_faq
BeginAdd ==
    \E t \in Threads, a \in ThreadArgs :
        /\ running[t].pc = "idle"
        /\ hist.calls < MaxCalls
        /\ Len(faq_data) + Pending < MaxEntries
        /\ new_faq_id(faq_data) <= MaxId
        /\ running' = [running EXCEPT ![t] =
               [pc |-> "built", op |-> "add_faq",
                new_faq |-> Faq(new_faq_id(faq_data), a[1], a[2],
                                keywords_or_empty(a[3])),
                faq_id |-> 0, before |-> faq_data, before_index |-> search_index]]
        /\ hist' = [hist EXCEPT !.calls = @ + 1]
        /\ UNCHANGED <<faq_data, search_index, faq_file, file_text, last, forms>>

\* delete_faq up to the test of what _get_faq_by_id returned
BeginDelete ==
    \E t \in Threads, id \in 1..MaxId :
        /\ running[t].pc = "idle"
        /\ hist.calls < MaxCalls
        /\ hist' = [hist EXCEPT !.calls = @ + 1]
        /\ IF get_faq_by_id(faq_data, id) = NoFaq
           THEN /\ last' = Call("delete_faq", FALSE, NoFaq, <<>>, NoMatch)
                /\ UNCHANGED running
           ELSE /\ running' = [running EXCEPT ![t] =
                      [pc |-> "found", op |-> "delete_faq",
                       new_faq |-> get_faq_by_id(faq_data, id), faq_id |-> id,
                       before |-> faq_data, before_index |-> search_index]]
                /\ UNCHANGED last
        /\ UNCHANGED <<faq_data, search_index, faq_file, file_text, forms>>

\* self.faq_data.append(new_faq), or self.faq_data = [f for f in ...]
Mutate ==
    \E t \in Threads :
        /\ running[t].pc \in {"built", "found"}
        /\ faq_data' = IF running[t].pc = "built"
                       THEN Append(faq_data, running[t].new_faq)
                       ELSE remove_faq(faq_data, running[t].faq_id)
        /\ running' = [running EXCEPT ![t].pc = "mutated"]
        /\ UNCHANGED <<search_index, faq_file, file_text, last, hist, forms>>

\* _build_search_index: self.search_index = {}
Empty ==
    \E t \in Threads :
        /\ running[t].pc = "mutated"
        /\ search_index' = <<>>
        /\ running' = [running EXCEPT ![t].pc = "emptied"]
        /\ UNCHANGED <<faq_data, faq_file, file_text, last, hist, forms>>

\* _build_search_index: the loop, on the index and the store as they are now
Fill ==
    \E t \in Threads :
        /\ running[t].pc = "emptied"
        /\ search_index' = build_from(search_index, faq_data, 1)
        /\ running' = [running EXCEPT ![t].pc = "filled"]
        /\ UNCHANGED <<faq_data, faq_file, file_text, last, hist, forms>>

\* _save_faq and return True
SaveAndReturn ==
    \E t \in Threads, outcome \in SaveOutcomes :
        /\ running[t].pc = "filled"
        /\ faq_file' = save_faq(faq_file, TRUE, outcome)
        /\ file_text' = save_text(file_text, faq_file, faq_data, TRUE, outcome)
        /\ last' = Call(running[t].op, TRUE, running[t].new_faq, <<>>, NoMatch)
        /\ running' = [running EXCEPT ![t] = Idle]
        /\ UNCHANGED <<faq_data, search_index, hist, forms>>

NextThreads ==
    BeginAdd \/ BeginDelete \/ Mutate \/ Empty \/ Fill \/ SaveAndReturn
        \/ Statistics

SpecThreads == Init /\ [][NextThreads]_vars

----------------------------------------------------------------------------
(* The calls of RequestFormManager *)

FormCall(op, user_id, ret, user_input, data) ==
    [Call(op, ret, NoFaq, user_input, NoMatch)
        EXCEPT !.user = user_id, !.data = data]

\* the field process_input fills in a state
FieldOf(state) ==
    CASE state = ASKING_NAME -> "name"
      [] state = ASKING_PHONE -> "phone"
      [] state = ASKING_EMAIL -> "email"
      [] state = ASKING_DESCRIPTION -> "description"
      [] OTHER -> "none"

StartForm ==
    \E u \in Users, q \in OriginalQuestions :
        /\ forms' = [get_form(forms, u) EXCEPT ![u] = start_form(@, q)]
        /\ last' = FormCall("start_form", u, TRUE, <<>>, NoData)
        /\ hist' = [hist EXCEPT
                       !.entered[u] = [NoEntries EXCEPT !.original_question = q]]
        /\ UNCHANGED <<faq_data, search_index, faq_file, file_text, running>>

ProcessInput ==
    \E u \in Users, i \in FormInputs :
        LET form == get_form(forms, u)[u]
            result == process_input(form, i)
        IN  /\ forms' = [get_form(forms, u) EXCEPT ![u] = result.form]
            /\ last' = FormCall("process_input", u, result.completed, i,
                                result.data)
            /\ hist' = IF result.form.state # form.state
                       THEN [hist EXCEPT
                               !.entered[u][FieldOf(form.state)] = Some(i)]
                       ELSE hist
            /\ UNCHANGED <<faq_data, search_index, faq_file, file_text, running>>

CancelForm ==
    \E u \in Users :
        /\ forms' = [get_form(forms, u) EXCEPT ![u] = cancel_form(@)]
        /\ last' = FormCall("cancel_form", u, TRUE, <<>>, NoData)
        /\ UNCHANGED <<faq_data, search_index, faq_file, file_text, running, hist>>

IsUserFillingForm ==
    \E u \in Users :
        /\ forms' = get_form(forms, u)
        /\ last' = FormCall("is_user_filling_form", u,
                            is_active(get_form(forms, u)[u]), <<>>, NoData)
        /\ UNCHANGED <<faq_data, search_index, faq_file, file_text, running, hist>>

\* clear_form: del self.forms[user_id]
ClearForm ==
    \E u \in Users :
        /\ forms' = [v \in DOMAIN forms \ {u} |-> forms[v]]
        /\ last' = FormCall("clear_form", u, TRUE, <<>>, NoData)
        /\ UNCHANGED <<faq_data, search_index, faq_file, file_text, running, hist>>

NextForms ==
    StartForm \/ ProcessInput \/ CancelForm \/ IsUserFillingForm \/ ClearForm

\* the forms do not depend on the FAQ file: the bot starts without one
InitForms == Init /\ faq_file = "absent"

SpecForms == InitForms /\ [][NextForms]_vars

\* the mutators and the diagnostics
NextDiag == Add \/ Delete \/ SearchSimilar

SpecDiag == Init /\ [][NextDiag]_vars

----------------------------------------------------------------------------
(* Notions the properties are stated with *)

Mutators == {"add_faq", "update_faq", "delete_faq"}
Searched == last.op = "search_faq"

Positions == 1..Len(faq_data)

\* the tokens of one record: its lowercased keywords, and the words of its
\* lowercased question that are longer than two characters
QuestionWords(faq) ==
    LET words == findall_words(lower(faq.question))
    IN  {words[n] : n \in 1..Len(words)}
KeywordTokens(faq) == {lower(faq.keywords[n]) : n \in 1..Len(faq.keywords)}
Tokens(faq) == KeywordTokens(faq) \cup {w \in QuestionWords(faq) : Len(w) > 2}

\* the normalized query and its words
Norm(query) == strip(lower(query))
WordsOf(query) ==
    LET words == findall_words(Norm(query))
    IN  {words[n] : n \in 1..Len(words)}

\* the positions whose lowercased question contains the normalized query
ExactHits(query) ==
    {n \in Positions : Contains(Norm(query), lower(faq_data[n].question))}

\* the hits of Tier 2: <<w, p>> is the p-th id listed under the w-th query word
KeywordHits(query) ==
    LET words == findall_words(Norm(query))
    IN  {h \in (1..Len(words)) \X (1..Len(faq_data) * 2 + 1) :
            /\ words[h[1]] \in DOMAIN search_index
            /\ h[2] <= Len(search_index[words[h[1]]])}
HitId(query, h) == search_index[findall_words(Norm(query))[h[1]]][h[2]]
HitCount(query, id) ==
    Cardinality({h \in KeywordHits(query) : HitId(query, h) = id})
HitBefore(h, g) == h[1] < g[1] \/ (h[1] = g[1] /\ h[2] < g[2])
FirstHit(query, id) ==
    CHOOSE h \in KeywordHits(query) :
        /\ HitId(query, h) = id
        /\ \A g \in KeywordHits(query) :
              HitId(query, g) = id /\ g # h => HitBefore(h, g)

\* the score of the record at position n for a query, in Tier 3
ScoreAt(query, n) ==
    total_score(Norm(query), findall_words(Norm(query)), faq_data[n])

\* a keyword that is one non-empty word
SingleWord(keyword) ==
    keyword # <<>> /\ \A i \in 1..Len(keyword) : keyword[i] \in WordChars

----------------------------------------------------------------------------
C2_Original ==
    Searched /\ last.query # <<>> =>
        \A n \in Positions :
            faq_data[n].question = last.query =>
                last.found = Match("Exact", faq_data[n])

(* C2 amended: a search for the question of a stored record returns None   *)
(* when the question is empty, and otherwise returns, through the Exact    *)
(* tier, the first record in store order whose lowercased question         *)
(* contains the trimmed, lowercased question searched for: the record      *)
(* itself unless an earlier record's question contains its question.       *)
C2_FirstContaining ==
    Searched =>
        \A n \in Positions :
            faq_data[n].question = last.query =>
                IF last.query = <<>>
                THEN last.found = NoMatch
                ELSE /\ n \in ExactHits(last.query)
                     /\ last.found =
                           Match("Exact", faq_data[SetMin(ExactHits(last.query))])
                     /\ (\A m \in 1..(n - 1) : m \notin ExactHits(last.query))
                           => last.found.faq = faq_data[n]

\* the question of the second record was searched for and the first record,
\* a different one, came back
C2_Witness ==
    /\ Searched
    /\ Len(faq_data) = 2
    /\ last.query = faq_data[2].question
    /\ last.query # faq_data[1].question
    /\ last.found = Match("Exact", faq_data[1])

(* C3 as claimed: a search for the empty query or for a query of blanks    *)
(* only returns None, whatever the store holds.                            *)
C3_BlankQueryNone ==
    Searched /\ strip(last.query) = <<>> => last.found = NoMatch

(* C4: the tiers are tried in the order Exact, Keyword, Fuzzy.  A Keyword  *)
(* result means no question contains the normalized query; a Fuzzy result  *)
(* means in addition that no query word is a token of the index; and a     *)
(* query (not empty) that some question contains gets its Exact result,    *)
(* one whose words hit the index and no question contains its Keyword      *)
(* result: a later tier never overrides an earlier one.                    *)
C4_TierOrder ==
    Searched =>
        /\ last.found.tier = "Keyword" => ExactHits(last.query) = {}
        /\ last.found.tier = "Fuzzy" =>
              /\ ExactHits(last.query) = {}
              /\ WordsOf(last.query) \cap DOMAIN search_index = {}
        /\ last.query # <<>> /\ ExactHits(last.query) # {} =>
              last.found.tier = "Exact"
        /\ /\ last.query # <<>>
           /\ ExactHits(last.query) = {}
           /\ WordsOf(last.query) \cap DOMAIN search_index # {}
           => last.found.tier = "Keyword"

\* a search fell through to the Fuzzy tier on a store whose index has tokens
C4_Witness ==
    /\ Searched
    /\ last.found.tier = "Fuzzy"
    /\ DOMAIN search_index # {}

(* C5: when the normalized query is contained in the lowercased question   *)
(* of several records, the search returns the one that is first in store   *)
(* order, whatever the ids and the keywords.                               *)
C5_FirstMatchWins ==
    Searched /\ last.query # <<>> /\ ExactHits(last.query) # {} =>
        last.found = Match("Exact", faq_data[SetMin(ExactHits(last.query))])

\* two questions contain the query, and the record returned, the first one,
\* has the larger id
C5_Witness ==
    /\ Searched /\ last.query # <<>>
    /\ Len(faq_data) = 2
    /\ ExactHits(last.query) = {1, 2}
    /\ faq_data[1].id > faq_data[2].id
    /\ last.found = Match("Exact", faq_data[1])

(* C6 as claimed: the record returned by the Keyword tier has the largest  *)
(* accumulated hit count, and of several records with that count the one   *)
(* with the lowest id is returned.                                         *)
C6_Original ==
    Searched /\ last.found.tier = "Keyword" =>
        \A h \in KeywordHits(last.query) :
            LET other == HitId(last.query, h)
            IN  /\ HitCount(last.query, last.found.faq.id)
                      >= HitCount(last.query, other)
                /\ HitCount(last.query, other)
                      = HitCount(last.query, last.found.faq.id)
                   => last.found.faq.id <= other

(* C6 amended: the record returned by the Keyword tier has the largest     *)
(* accumulated hit count, and of several records with that count the one   *)
(* returned is the one whose id is met first when the query words are      *)
(* taken in order and, for each word, the ids listed under it in index     *)
(* order.                                                                  *)
C6_FirstCountedWins ==
    Searched /\ last.found.tier = "Keyword" =>
        /\ HitCount(last.query, last.found.faq.id) >= 1
        /\ last.found.faq = get_faq_by_id(faq_data, last.found.faq.id)
        /\ \A h \in KeywordHits(last.query) :
              LET other == HitId(last.query, h)
              IN  /\ HitCount(last.query, last.found.faq.id)
                        >= HitCount(last.query, other)
                  /\ /\ other # last.found.faq.id
                     /\ HitCount(last.query, other)
                           = HitCount(last.query, last.found.faq.id)
                     => HitBefore(FirstHit(last.query, last.found.faq.id),
                                  FirstHit(last.query, other))

\* two records have the largest count and the one returned has the larger id
C6_Witness ==
    /\ Searched /\ last.found.tier = "Keyword"
    /\ \E h \in KeywordHits(last.query) :
          /\ HitId(last.query, h) < last.found.faq.id
          /\ HitCount(last.query, HitId(last.query, h))
                = HitCount(last.query, last.found.faq.id)

(* C7 as claimed: a query whose words all have length 1 or 2 never gets a  *)
(* Keyword-tier result, whatever keywords the records have.                *)
C7_Original ==
    Searched /\ (\A w \in WordsOf(last.query) : Len(w) <= 2) =>
        last.found.tier # "Keyword"

(* C8: in the Fuzzy tier (no question contains the query, no query word is *)
(* in the index) the search returns the record with the largest            *)
(* total_score if and only if that score is above 0.3, the first such      *)
(* record in store order when several share it, and None when no record    *)
(* is above 0.3.                                                           *)
C8_FuzzyBest ==
    /\ Searched /\ last.query # <<>> /\ faq_data # <<>>
    /\ ExactHits(last.query) = {}
    /\ WordsOf(last.query) \cap DOMAIN search_index = {}
    => LET top  == {n \in Positions :
                      \A m \in Positions :
                         ~ FloatGT(ScoreAt(last.query, m), ScoreAt(last.query, n))}
           best == SetMin(top)
       IN  IF FloatGT(ScoreAt(last.query, best), Float(3, 10))
           THEN last.found = Match("Fuzzy", faq_data[best])
           ELSE last.found = NoMatch

\* two records share the largest total_score, it is above 0.3, and the first
\* of them in store order is returned
C8_Witness ==
    /\ Searched /\ last.found.tier = "Fuzzy"
    /\ Len(faq_data) = 2
    /\ ~ FloatGT(ScoreAt(last.query, 1), ScoreAt(last.query, 2))
    /\ ~ FloatGT(ScoreAt(last.query, 2), ScoreAt(last.query, 1))
    /\ last.found.faq = faq_data[1]
    /\ faq_data[1] # faq_data[2]

(* C9 as claimed: right after add_faq returns, a search for any keyword of *)
(* the new record that no other record has, single-word or multi-word,     *)
(* returns the new record through the Keyword tier.                        *)
C9_Original ==
    last.op = "add_faq" /\ last.ret =>
        \A k \in 1..Len(last.faq.keywords) :
            (\A n \in Positions :
                faq_data[n].id # last.faq.id =>
                    ~ InSeq(last.faq.keywords[k], faq_data[n].keywords))
            => search_faq(faq_data, search_index, last.faq.keywords[k])
                  = Match("Keyword", last.faq)

(* C9 amended: right after add_faq returns, a search for a keyword of the  *)
(* new record returns the new record through the Keyword tier provided     *)
(* the keyword is a single non-empty word, no other record has it among    *)
(* its keywords (compared in lower case), and no record's lowercased       *)
(* question, the new record's included, contains it in lower case.         *)
C9_SingleWordKeywordFound ==
    last.op = "add_faq" /\ last.ret =>
        \A k \in 1..Len(last.faq.keywords) :
            LET keyword == last.faq.keywords[k]
            IN  /\ SingleWord(keyword)
                /\ \A n \in Positions :
                      /\ faq_data[n].id # last.faq.id =>
                            lower(keyword) \notin KeywordTokens(faq_data[n])
                      /\ ~ Contains(lower(keyword), lower(faq_data[n].question))
                => search_faq(faq_data, search_index, keyword)
                      = Match("Keyword", last.faq)

\* a record was added to a store that held another one, and it has a
\* single-word keyword that the other record lacks and no question contains
C9_Witness ==
    /\ last.op = "add_faq" /\ last.ret
    /\ Len(faq_data) = 2
    /\ faq_data[2] = last.faq
    /\ \E k \in 1..Len(last.faq.keywords) :
          /\ SingleWord(last.faq.keywords[k])
          /\ lower(last.faq.keywords[k]) \notin KeywordTokens(faq_data[1])
          /\ \A n \in Positions :
                ~ Contains(lower(last.faq.keywords[k]), lower(faq_data[n].question))

\* no remaining record is above the Tier-3 threshold for the query
NoFuzzyMatch(query) ==
    \A n \in Positions :
        faq_data[n].id # last.faq.id =>
            ~ FloatGT(ScoreAt(query, n), Float(3, 10))

(* C10 as claimed: right after delete_faq removed a record, a search for a *)
(* keyword that only the removed record had returns None, provided no      *)
(* other record matches the query by fuzzy similarity.                     *)
C10_Original ==
    last.op = "delete_faq" /\ last.ret =>
        \A k \in 1..Len(last.faq.keywords) :
            LET keyword == last.faq.keywords[k]
            IN  /\ \A n \in Positions : ~ InSeq(keyword, faq_data[n].keywords)
                /\ NoFuzzyMatch(keyword)
                => search_faq(faq_data, search_index, keyword) = NoMatch

(* C10 amended: right after delete_faq removed a record, a search for a    *)
(* keyword that only the removed record had never returns the removed      *)
(* record, and it returns None provided no remaining record's lowercased   *)
(* question contains the normalized keyword, no word of the keyword is a   *)
(* token of a remaining record, and no remaining record matches the query  *)
(* by fuzzy similarity.                                                    *)
C10_DeletedKeywordGone ==
    last.op = "delete_faq" /\ last.ret =>
        \A k \in 1..Len(last.faq.keywords) :
            LET keyword   == last.faq.keywords[k]
                remaining == {n \in Positions : faq_data[n].id # last.faq.id}
                found     == search_faq(faq_data, search_index, keyword)
            IN  (\A n \in remaining : ~ InSeq(keyword, faq_data[n].keywords))
                => /\ found.tier = "None" \/ found.faq.id # last.faq.id
                   /\ /\ \A n \in remaining :
                            /\ ~ Contains(Norm(keyword), lower(faq_data[n].question))
                            /\ WordsOf(keyword) \cap Tokens(faq_data[n]) = {}
                      /\ NoFuzzyMatch(keyword)
                      => found = NoMatch

\* a record with a keyword of its own was removed, another record remains,
\* and the search for that keyword returns None
C10_Witness ==
    /\ last.op = "delete_faq" /\ last.ret
    /\ faq_data # <<>>
    /\ \E k \in 1..Len(last.faq.keywords) :
          /\ \A n \in Positions :
                ~ InSeq(last.faq.keywords[k], faq_data[n].keywords)
          /\ search_faq(faq_data, search_index, last.faq.keywords[k]) = NoMatch

\* the ids of the records of a list are pairwise distinct
DistinctIds(data) ==
    \A m, n \in 1..Len(data) : m # n => data[m].id # data[n].id

(* C11: started from a store with pairwise distinct ids, the ids in        *)
(* faq_data stay pairwise distinct after every add_faq, update_faq and     *)
(* delete_faq, and right after add_faq the new record is the last of the   *)
(* list with the id max(ids of the records before it, 0 if none) + 1.      *)
C11_DistinctIds ==
    /\ DistinctIds(faq_data)
    /\ last.op = "add_faq" =>
          LET before == SubSeq(faq_data, 1, Len(faq_data) - 1)
          IN  /\ faq_data # <<>>
              /\ faq_data[Len(faq_data)] = last.faq
              /\ last.faq.id = SetMax(Ids(before) \cup {0}) + 1

\* a record was added to a store that held one record, and got the next id
C11_Witness ==
    /\ last.op = "add_faq"
    /\ Len(faq_data) = 2
    /\ faq_data[1].id + 1 = faq_data[2].id
    /\ faq_data[2] = last.faq

\* the positions of the records with that id
PositionsOf(data, faq_id) == {n \in 1..Len(data) : data[n].id = faq_id}

(* C12: update_faq on an id that is in the store changes exactly the       *)
(* supplied fields of that record: each supplied field (an argument other  *)
(* than None, the empty keyword list included) takes the supplied value,   *)
(* and each field not supplied, the id, the position of the record and     *)
(* all other records stay as they were.                                    *)
C12_ExactlySuppliedFields ==
    [][\A faq_id \in 1..MaxId, u \in UpdateArgs :
          update_faq(faq_id, u[1], u[2], u[3]) /\ faq_id \in Ids(faq_data) =>
             /\ Len(faq_data') = Len(faq_data)
             /\ \A n \in Positions :
                   IF n \in PositionsOf(faq_data, faq_id)
                   THEN /\ faq_data'[n].id = faq_id
                        /\ faq_data'[n].question =
                              IF u[1] # None THEN u[1][1] ELSE faq_data[n].question
                        /\ faq_data'[n].answer =
                              IF u[2] # None THEN u[2][1] ELSE faq_data[n].answer
                        /\ faq_data'[n].keywords =
                              IF u[3] # None THEN u[3][1] ELSE faq_data[n].keywords
                   ELSE faq_data'[n] = faq_data[n]
      ]_vars

\* new holds the records of old whose id is not faq_id, in the order of old
OthersInOrder(old, new, faq_id) ==
    \E f \in [1..Len(new) -> 1..Len(old)] :
        /\ \A i, j \in 1..Len(new) : i < j => f[i] < f[j]
        /\ \A k \in 1..Len(new) : new[k] = old[f[k]]
        /\ {f[k] : k \in 1..Len(new)} = {n \in 1..Len(old) : old[n].id # faq_id}

C14_UnknownIdNoEffect ==
    [][\A faq_id \in 1..MaxId :
          faq_id \notin Ids(faq_data) =>
             /\ \A u \in UpdateArgs :
                   update_faq(faq_id, u[1], u[2], u[3]) =>
                      /\ last'.ret = FALSE
                      /\ UNCHANGED <<faq_data, search_index, faq_file, file_text>>
             /\ Get(faq_id) =>
                   /\ last'.faq = NoFaq
                   /\ UNCHANGED <<faq_data, search_index, faq_file, file_text>>
      ]_vars

\* update_faq returned False on a store that holds a record with another id
C14_Witness ==
    /\ last.op = "update_faq" /\ ~ last.ret
    /\ faq_data # <<>>

(* C15: when the save step of add_faq, update_faq or delete_faq fails, the *)
(* call does not return its success result: a call that returned True has  *)
(* left the current corpus in the file.                                    *)
C15_SaveFailureReported ==
    last.op \in Mutators /\ faq_file # "current" => ~ last.ret

(* C16: a save that fails leaves the previously written corpus intact: no  *)
(* call turns a file that held a complete corpus (or no file) into a       *)
(* truncated one.                                                          *)
C16_PreviousCopyIntact ==
    [][faq_file # "partial" => faq_file' # "partial"]_vars

(* C17: when the manager is constructed on a file that exists but is       *)
(* malformed, the load error is reported to the caller (the constructor    *)
(* does not return normally); when there is no file the store is the       *)
(* built-in default FAQ.                                                   *)
C17_LoadErrorReported ==
    last.op = "init" =>
        /\ faq_file = "partial" => ~ last.ret
        /\ faq_file = "absent" => faq_data = get_default_faq

(* C18: round trip.  Whenever the file holds the current corpus, after a   *)
(* load at start-up and after every successful save (a save with no        *)
(* mutation included), reading its text gives the list in memory: the      *)
(* same records in the same order, each with the same id, question, answer *)
(* and keyword sequence; so a start from the file a successful save left   *)
(* yields the store that was saved.                                        *)
C18_RoundTrip ==
    /\ faq_file = "current" =>
          /\ json_load(file_text).ok
          /\ json_load(file_text).value = faq_data
    /\ last.op = "init" /\ faq_file = "current" =>
          /\ faq_data = load_faq(faq_file, file_text)
          /\ json_dump(faq_data) = file_text

\* the process started again on a file that an earlier run saved: two
\* records, one of them with two keywords, not a corpus found at first start
C18_Witness ==
    /\ last.op = "init" /\ faq_file = "current"
    /\ Len(faq_data) = 2
    /\ faq_data \notin LoadedCorpora
    /\ \E n \in Positions : Len(faq_data[n].keywords) = 2

\* the total_score search_similar_questions gives a record for the last query
SimilarScore(faq) ==
    total_score(lower(last.query), findall_words(lower(last.query)), faq)

\* the records above the 0.1 minimum, by position
Qualifying == {n \in Positions : FloatGT(SimilarScore(faq_data[n]), Float(1, 10))}

\* the list returned holds records of the store above the minimum, by
\* non-increasing score, records of equal score in store order
RankedAboveMinimum(similar) ==
    /\ \A i \in 1..Len(similar) :
          \E n \in Qualifying : faq_data[n] = similar[i]
    /\ \A i, j \in 1..Len(similar) :
          i < j =>
             /\ ~ FloatGT(SimilarScore(similar[j]), SimilarScore(similar[i]))
             /\ ~ FloatGT(SimilarScore(similar[i]), SimilarScore(similar[j]))
                => \E m, n \in Positions :
                      /\ m < n
                      /\ faq_data[m] = similar[i]
                      /\ faq_data[n] = similar[j]

(* C19 as claimed: search_similar_questions(q, limit=k) returns at most k  *)
(* records for every integer k, each with a total_score above 0.1, by      *)
(* non-increasing total_score, records of equal score in store order.      *)
C19_Original ==
    last.op = "search_similar_questions" =>
        /\ Len(last.similar) <= last.limit
        /\ RankedAboveMinimum(last.similar)

(* C19 amended: search_similar_questions(q, limit=k) returns at most k     *)
(* records for every integer k >= 0, and for a negative k the ranked list  *)
(* without its last -k records (which can be more than k); each record     *)
(* returned has a total_score above 0.1, and they come by non-increasing   *)
(* total_score, records of equal score in store order.                     *)
C19_AtMostLimit ==
    last.op = "search_similar_questions" =>
        /\ last.limit >= 0 => Len(last.similar) <= last.limit
        /\ last.limit < 0 =>
              Len(last.similar) =
                 IF Cardinality(Qualifying) + last.limit > 0
                 THEN Cardinality(Qualifying) + last.limit ELSE 0
        /\ RankedAboveMinimum(last.similar)
        /\ \A n \in Qualifying :
              (\A i \in 1..Len(last.similar) : last.similar[i] # faq_data[n]) =>
                 /\ Len(last.similar) < Cardinality(Qualifying)
                 /\ \A i \in 1..Len(last.similar) :
                       ~ FloatGT(SimilarScore(faq_data[n]),
                                 SimilarScore(last.similar[i]))

\* two records of equal score were returned, in store order
C19_Witness ==
    /\ last.op = "search_similar_questions"
    /\ last.limit = 2
    /\ Len(last.similar) = 2
    /\ ~ FloatGT(SimilarScore(last.similar[1]), SimilarScore(last.similar[2]))
    /\ last.similar[1] # last.similar[2]

(* C20: of two get_statistics calls in a row the second returns what the   *)
(* first returned, and a rebuild of the index over a store that did not    *)
(* change (update_faq with nothing to change, twice or more) leaves the    *)
(* index as the first rebuild made it: no id is accumulated.               *)
C20_Idempotent ==
    [][/\ last.op = "get_statistics" /\ last'.op = "get_statistics"
          => last'.stats = last.stats
       /\ last'.op = "update_faq" /\ last'.ret /\ faq_data' = faq_data
          => search_index' = search_index
      ]_vars

\* the second of two get_statistics calls in a row, on a store with records
\* and keywords
C20_Witness ==
    /\ last.op = "get_statistics" /\ last.nth = 2
    /\ last.stats.total_keywords > 0
    /\ last.stats.search_index_size > 0

(* C22: a search_faq call changes neither the store, the index nor the     *)
(* file, and what it returns is the value of the three tiers on the query  *)
(* and the state it ran in, whatever call came before it (in particular a  *)
(* second search with the same query returns what the first returned).     *)
C22_SearchPure ==
    [][last'.op = "search_faq" =>
          /\ UNCHANGED <<faq_data, search_index, faq_file, file_text>>
          /\ last'.found = search_faq(faq_data, search_index, last'.query)
          /\ last.op = "search_faq" /\ last.query = last'.query
                => last'.found = last.found
      ]_vars

\* a search that found nothing for its words, on a store where another query
\* finds a record
C22_Witness ==
    /\ last.op = "search_faq"
    /\ last.found = NoMatch
    /\ last.query # <<>>
    /\ \E q \in Queries : search_faq(faq_data, search_index, q) # NoMatch

(* C23: in every reachable state every record of the store has a non-empty *)
(* question and a non-empty answer.                                        *)
C23_NonEmptyFields ==
    \A n \in 1..Len(faq_data) :
        /\ faq_data[n].question # <<>>
        /\ faq_data[n].answer # <<>>

(* C27: after every rebuild no id is listed more than once under the same  *)
(* token of the index, whatever keywords the records list.                 *)
C27_IdsUnique ==
    \A tok \in DOMAIN search_index :
        \A i, j \in 1..Len(search_index[tok]) :
            i # j => search_index[tok][i] # search_index[tok][j]

\* the step is an add_faq call that follows the removal of the record that
\* held the largest id
AddAfterMaxDeleted ==
    /\ last.op = "delete_faq" /\ last.ret
    /\ \A id \in Ids(faq_data) : id < last.faq.id
    /\ last'.op = "add_faq"

\* the step is an add_faq call in a history whose deletions all removed an id
\* below the largest: the id it assigns was never held before
FreshWhenLowOnly ==
    last'.op = "add_faq" /\ last' # last /\ hist.low_only
        => last'.faq.id \notin hist.deleted \cup Ids(faq_data)

C28_FailureLeavesState ==
    [][last'.op \in {"add_faq", "update_faq"} /\ ~ last'.ret
          => UNCHANGED <<faq_data, search_index>>
      ]_vars

\* the store a mutator call in progress makes of the store it was called on
StoreAfter(call) ==
    IF call.op = "add_faq" THEN Append(call.before, call.new_faq)
    ELSE remove_faq(call.before, call.faq_id)

(* C21: a get_statistics call made while one mutator call is in progress   *)
(* returns the statistics of the store and index as they were when the     *)
(* mutator was called, or of the store and index the mutator leaves.       *)
C21_ReaderSeesWhole ==
    [][\A t \in Threads :
          /\ last'.op = "get_statistics" /\ last' # last
          /\ running[t].pc # "idle"
          /\ \A u \in Threads \ {t} : running[u].pc = "idle"
          => last'.stats \in
                { get_statistics(running[t].before, running[t].before_index),
                  get_statistics(StoreAfter(running[t]),
                                 build_search_index(StoreAfter(running[t]))) }
      ]_vars

(* C25: when no mutator call is in progress any more, the ids of the store  *)
(* are distinct and every record is listed under each of its tokens.       *)
C25_MutatorsAtomic ==
    (\A t \in Threads : running[t].pc = "idle") =>
        /\ DistinctIds(faq_data)
        /\ \A n \in 1..Len(faq_data) : \A tok \in Tokens(faq_data[n]) :
              /\ tok \in DOMAIN search_index
              /\ InSeq(faq_data[n].id, search_index[tok])

----------------------------------------------------------------------------
(* Notions the properties of the request form are stated with *)

\* the form of a user; a user without a form has the form get_form creates
FormOf(fs, u) == IF u \in DOMAIN fs THEN fs[u] ELSE RequestForm

Asking == {ASKING_NAME, ASKING_PHONE, ASKING_EMAIL, ASKING_DESCRIPTION}

\* the place of a state in the order of the form
Order(state) ==
    CASE state = IDLE -> 0
      [] state = ASKING_NAME -> 1
      [] state = ASKING_PHONE -> 2
      [] state = ASKING_EMAIL -> 3
      [] state = ASKING_DESCRIPTION -> 4
      [] state = COMPLETED -> 5

IsSkip(input) == lower(strip(input)) \in SkipWords

\* the input is valid for the state: a name of 2 characters or more, a phone
\* with 10 or more digits and plus signs, a well-formed email or a skip word,
\* a description of 10 characters or more (surrounding blanks not counted)
ValidFor(state, input) ==
    CASE state = ASKING_NAME -> Len(strip(input)) >= 2
      [] state = ASKING_PHONE ->
            Cardinality({i \in 1..Len(input) :
                            InSeq(input[i], Digits) \/ input[i] = "+"}) >= 10
      [] state = ASKING_EMAIL -> IsSkip(input) \/ email_match(lower(strip(input)))
      [] state = ASKING_DESCRIPTION -> Len(strip(input)) >= 10
      [] OTHER -> FALSE

\* the values typed in a run, as typed
AsTyped(entered) ==
    [entered EXCEPT !.email = IF @ # None /\ IsSkip(@[1]) THEN None ELSE @]

\* the values typed in a run, without surrounding blanks, the email in lower
\* case
Normalised(entered) ==
    [name |-> Some(strip(entered.name[1])),
     phone |-> Some(strip(entered.phone[1])),
     email |-> IF IsSkip(entered.email[1]) THEN None
               ELSE Some(lower(strip(entered.email[1]))),
     description |-> Some(strip(entered.description[1])),
     original_question |-> entered.original_question]

\* a valid input in an ASKING_ state moves the form of user u to the next
\* state, and completed is true only on the move to COMPLETED
ValidInputAdvances(u) ==
    LET form == FormOf(forms, u)
    IN  /\ last'.op = "process_input" /\ last'.user = u
        /\ form.state \in Asking
        /\ ValidFor(form.state, last'.query)
        => /\ Order(FormOf(forms', u).state) = Order(form.state) + 1
           /\ last'.ret <=> form.state = ASKING_DESCRIPTION

(* C24 as stated: the four valid inputs walk the form from ASKING_NAME to  *)
(* COMPLETED, only the last call returns completed = true, and the data it *)
(* returns are the values the user typed in this run.                      *)
C24_Original ==
    [][\A u \in Users :
          /\ ValidInputAdvances(u)
          /\ last'.op = "process_input" /\ last'.user = u /\ last'.ret
                => last'.data = AsTyped(hist'.entered[u])
      ]_vars

(* C24: the four valid inputs walk the form from ASKING_NAME to COMPLETED, *)
(* only the last call returns completed = true, and the data it returns    *)
(* are the values typed in this run without their surrounding blanks, the  *)
(* email in lower case (None for a skip word), with the question of this   *)
(* run's start_form.                                                       *)
C24_ValidRunCompletes ==
    [][\A u \in Users :
          /\ ValidInputAdvances(u)
          /\ last'.op = "process_input" /\ last'.user = u /\ last'.ret
                => /\ FormOf(forms', u).state = COMPLETED
                   /\ \A f \in {"name", "phone", "email", "description"} :
                         hist'.entered[u][f] # None
                   /\ last'.data = Normalised(hist'.entered[u])
      ]_vars

\* a run has completed with a skipped email and a name that was typed with
\* blanks around it
C24_Witness ==
    /\ last.op = "process_input" /\ last.ret
    /\ last.data.email = None
    /\ last.data.name # hist.entered[last.user].name
    /\ last.data.original_question # None

(* C29: process_input moves the form of its user forward by one state on   *)
(* a valid input and by none otherwise; on an invalid input it returns     *)
(* completed = false and leaves state and data as they were; it leaves     *)
(* every other user's form alone.                                          *)
C29_OneStepForward ==
    [][\A u \in Users :
          last'.op = "process_input" /\ last'.user = u =>
              LET form == FormOf(forms, u)
                  after == FormOf(forms', u)
              IN  /\ Order(after.state) - Order(form.state) \in {0, 1}
                  /\ form.state \in Asking /\ ValidFor(form.state, last'.query)
                        => Order(after.state) = Order(form.state) + 1
                  /\ form.state \in Asking /\ ~ ValidFor(form.state, last'.query)
                        => after = form /\ ~ last'.ret
                  /\ \A v \in Users \ {u} :
                        /\ v \in DOMAIN forms' <=> v \in DOMAIN forms
                        /\ FormOf(forms', v) = FormOf(forms, v)
      ]_vars

\* an invalid phone was refused while the other user is in the middle of a form
C29_Witness ==
    /\ last.op = "process_input" /\ ~ last.ret
    /\ FormOf(forms, last.user).state = ASKING_PHONE
    /\ FormOf(forms, last.user).data.phone = None
    /\ \E v \in Users \ {last.user} : FormOf(forms, v).state = ASKING_EMAIL

(* C30: process_input in IDLE or COMPLETED changes nothing and returns     *)
(* completed = false; cancel_form leaves the form IDLE with every field    *)
(* None; is_user_filling_form is true exactly in the four ASKING_ states;  *)
(* and a COMPLETED form holds a name, a phone and a description that are   *)
(* not empty and were typed after the last start_form.                     *)
C30_IdleCancelActive ==
    [][\A u \in Users :
          LET form == FormOf(forms, u)
              after == FormOf(forms', u)
          IN  /\ last'.op = "process_input" /\ last'.user = u
                 /\ form.state \in {IDLE, COMPLETED}
                    => after = form /\ ~ last'.ret
              /\ last'.op = "cancel_form" /\ last'.user = u
                    => after.state = IDLE /\ after.data = NoData
              /\ last'.op = "is_user_filling_form" /\ last'.user = u
                    => /\ last'.ret <=> form.state \in Asking
                       /\ after = form
              /\ after.state = COMPLETED =>
                    \A f \in {"name", "phone", "description"} :
                        /\ after.data[f] # None
                        /\ after.data[f][1] # <<>>
                        /\ hist'.entered[u][f] # None
                        /\ after.data[f] = Some(strip(hist'.entered[u][f][1]))
      ]_vars

\* process_input was called on a COMPLETED form
C30_Witness ==
    /\ last.op = "process_input" /\ ~ last.ret
    /\ FormOf(forms, last.user).state = COMPLETED
    /\ \E v \in Users \ {last.user} : FormOf(forms, v).state = IDLE

====
